---- MODULE Spec2Model ----
(***************************************************************************)
(* Model of the debounce / per-contact serialisation pipeline of the GHL   *)
(* bot: the /triggerResponse gateway (main.py), the Compensator KILL_BOT   *)
(* and the Conversation Advancer advance_convo (functions.py).             *)
(*                                                                         *)
(* Six specifications share the variables:                                 *)
(*   Spec        gateway, delay store, expiry listener and dispatcher      *)
(*   SpecListen  gateway to listener, with /loadtest/full-flow requests    *)
(*   SpecKill    one call of KILL_BOT on an arbitrary plan                 *)
(*   SpecAdvance one call of advance_convo with arbitrary collaborators    *)
(*   SpecCompile compile_messages on an arbitrary message list             *)
(*   SpecStrip   the stripping of citation markers on an arbitrary text    *)
(***************************************************************************)
EXTENDS Integers, Sequences, FiniteSets, TLC

\* Python's None, as it appears in strings of the model.
None == "<None>"

(***************************************************************************)
(* Bounds of the model.                                                    *)
(***************************************************************************)
MaxPlanLen == 2
MaxRetries == 3

(***************************************************************************)
(* KILL_BOT state: the running call's arguments and loop position, and the *)
(* trace of everything the program did (calls of collaborators with their  *)
(* results, and log records), in order.                                    *)
(***************************************************************************)
VARIABLES kb_pc, kb_reason, kb_contact, kb_plan, kb_i, kb_try, kb_failed, trace

kbVars == <<kb_pc, kb_reason, kb_contact, kb_plan, kb_i, kb_try, kb_failed>>

(***************************************************************************)
(* advance_convo state: the await the call is suspended at (adv_pc), its   *)
(* argument and locals, the BDMCOUSE_LINK environment variable, and the    *)
(* contact's recent_automated_message_id as the CRM stores it.             *)
(* all_messages is the local of compile_messages (the list fetched from    *)
(* the CRM), live only inside that call; ai_messages is the local of       *)
(* process_message_run (what messages.list returned).                      *)
(***************************************************************************)
VARIABLES adv_pc, convo_data, messages, run_response, ai_content, message_id,
          env_BDMCOUSE_LINK, crm_watermark, all_messages, ai_messages

advVars == <<adv_pc, convo_data, messages, run_response, ai_content, message_id,
             env_BDMCOUSE_LINK, crm_watermark, all_messages, ai_messages>>

(***************************************************************************)
(* Pipeline state.  store is the Delay Store (Redis): the live keys with   *)
(* the seconds each has left; channel holds the expiry notifications not   *)
(* yet read by the listener; response is the answer of the last            *)
(* /triggerResponse request, with the request and whether it set a key.    *)
(* Per contact: queue (the pending jobs), locked (the contact's lock),     *)
(* waiting (processing tasks started and not yet holding the lock) and     *)
(* running (the jobs inside advance_convo).  enq, handed, bursts, submits  *)
(* and ever_keys record what happened: the jobs enqueued and handed to the *)
(* Advancer per contact, the bursts of triggers per contact, the number of *)
(* requests, and every key the store ever held.  IS_LOAD_TEST and          *)
(* ENVIRONMENT are the process's configuration, read once at start.        *)
(* listening tells that the Expiry Listener's loop is running.             *)
(***************************************************************************)
VARIABLES store, channel, response, queue, locked, waiting, running,
          enq, handed, bursts, submits, ever_keys, IS_LOAD_TEST, ENVIRONMENT,
          listening

pipeVars == <<store, channel, response, queue, locked, waiting, running,
              enq, handed, bursts, submits, ever_keys, IS_LOAD_TEST, ENVIRONMENT,
              listening>>

(***************************************************************************)
(* /initialize state: the await the handler is suspended at (init_pc), the *)
(* customData of its request (data), its locals thread_id, convo_id,       *)
(* message_id and the exception e it caught (init_locals), and its answer  *)
(* (init_response).                                                        *)
(***************************************************************************)
VARIABLES init_pc, data, init_locals, init_response

initVars == <<init_pc, data, init_locals, init_response>>

\* One event of the trace: op is the operation, m its name or message,
\* a its arguments (strings), r its result, n an index where one applies.
Ev(op, m, a, r, n) == [op |-> op, m |-> m, a |-> a, r |-> r, n |-> n]

\* What one awaited action of a plan can do: return a value, return None, raise.
ActionOutcomes == {"result", "none", "raise"}

\* functions.py:26 "if result is not None".
action_success_first_only(outcome, tries) == outcome = "result" /\ tries = 1
action_success(outcome, tries) == outcome = "result"

\* functions.py:23 "for _ in range(retries)": no further attempt after `tries`.
retries_exhausted(tries, retries) == tries >= retries

\* functions.py:29-30 "except Exception: continue": a raising attempt never
\* leaves KILL_BOT.
attempt_escapes_on_raise(outcome) == outcome = "raise"
attempt_escapes(outcome) == FALSE

\* functions.py:37-38, the outcome text and level.
outcome_level_always_info(failed) == "info"
outcome_level(failed) == IF failed = <<>> THEN "info" ELSE "error"
outcome_text(failed) ==
    IF failed = <<>> THEN "all actions successful" ELSE "some actions failed"

\* functions.py:39-45, the one outcome record of a call.
outcome_log(failed) == Ev("log", outcome_text(failed), failed, outcome_level(failed), 0)

\* functions.py:17-19: entry of KILL_BOT from trace tr; an empty plan goes
\* straight to the outcome record.
KILL_BOT(reason, ghl_contact_id, actions, tr) ==
    LET tr1 == Append(tr, Ev("KILL_BOT", reason, <<ghl_contact_id>>, "", 0))
    IN /\ kb_reason' = reason
       /\ kb_contact' = ghl_contact_id
       /\ kb_plan' = actions
       /\ kb_failed' = <<>>
       /\ kb_i' = 1
       /\ kb_try' = 0
       /\ IF actions = <<>>
          THEN kb_pc' = "returned" /\ trace' = Append(tr1, outcome_log(<<>>))
          ELSE kb_pc' = "run" /\ trace' = tr1

\* functions.py:21-45: one awaited attempt of the current action and all the
\* code up to the next await (or to the return).
KB_Attempt ==
    /\ kb_pc = "run"
    /\ \E outcome \in ActionOutcomes :
        LET act == kb_plan[kb_i]
            tries == kb_try + 1
            tr1 == Append(trace, Ev("attempt", act.name, act.args, outcome, kb_i))
            success == action_success(outcome, tries)
            finished == success \/ retries_exhausted(tries, act.retries)
            failed1 == IF finished /\ ~success
                       THEN Append(kb_failed, act.name) ELSE kb_failed
        IN IF attempt_escapes(outcome)
           THEN /\ kb_pc' = "raised"
                /\ trace' = tr1
                /\ UNCHANGED <<kb_reason, kb_contact, kb_plan, kb_i, kb_try, kb_failed>>
           ELSE /\ kb_failed' = failed1
                /\ kb_i' = IF finished THEN kb_i + 1 ELSE kb_i
                /\ kb_try' = IF finished THEN 0 ELSE tries
                /\ IF finished /\ kb_i = Len(kb_plan)
                   THEN kb_pc' = "returned" /\ trace' = Append(tr1, outcome_log(failed1))
                   ELSE kb_pc' = "run" /\ trace' = tr1
                /\ UNCHANGED <<kb_reason, kb_contact, kb_plan>>
    /\ UNCHANGED advVars
    /\ UNCHANGED <<pipeVars, initVars>>

KbIdle ==
    /\ kb_pc = "idle"
    /\ kb_reason = ""
    /\ kb_contact = ""
    /\ kb_plan = <<>>
    /\ kb_i = 1
    /\ kb_try = 0
    /\ kb_failed = <<>>

\* main.py:52-56: the customData of an /initialize request, a mapping with
\* the three fields read from it (None for an absent one), or no mapping.
InitData(mapping, contact, message, filter_tag) ==
    [is_mapping |-> mapping, ghl_contact_id |-> contact, first_message |-> message,
     bot_filter_tag |-> filter_tag]

NoCustomData == InitData(FALSE, None, None, None)

\* The locals of the inner try block of /initialize, main.py:64-81, and the
\* exception caught at line 103.
InitLocals(thread_id, convo_id, message_id_, e) ==
    [thread_id |-> thread_id, convo_id |-> convo_id, message_id |-> message_id_,
     e |-> e]

InitResponse(status, message, contact) ==
    [status |-> status, message |-> message, ghl_contact_id |-> contact]

\* No /initialize request has arrived.
InitializeIdle ==
    /\ init_pc = "idle"
    /\ data = NoCustomData
    /\ init_locals = InitLocals(None, None, None, "")
    /\ init_response = InitResponse(0, "", None)

(***************************************************************************)
(* The Debounce Gateway, main.py:122-164, the Delay Store, and the Expiry  *)
(* Listener and the Dispatcher, which are not among the source files and   *)
(* are modelled from sections 4.2 and 4.3 of the specification.            *)
(***************************************************************************)
MaxSubmits == 3

\* main.py:149, the debounce window in seconds.
TTL == 10

\* main.py:22.
TEST_REDIS_PREFIX == "loadtest:"

\* main.py:143: uuid.uuid4() of the n-th request, a fresh value each time.
uuid4(n) == "uuid-" \o ToString(n)

Contacts == {"c1", "c2"}
Watermarks == {"m1", "m2"}

\* The identity fields of a trigger, in the order of main.py:136-142.
FieldNames == <<"ghl_contact_id", "thread_id", "assistant_id",
                "recent_automated_message_id", "ghl_convo_id">>

Event(contact, watermark) ==
    [ghl_contact_id |-> contact, thread_id |-> "thread1", assistant_id |-> "asst1",
     recent_automated_message_id |-> watermark, ghl_convo_id |-> "convo1"]

\* The values a field is rejected for: absent, empty, the literal "null".
Placeholders == {None, "", "null"}

\* The valid triggers: two contacts, and two watermarks for the first.
ValidEvents ==
    { Event(c, w) : c \in Contacts, w \in Watermarks } \ {Event("c2", "m2")}

\* A valid event with one field made a placeholder.
InvalidEvents ==
    { [Event("c1", "m1") EXCEPT ![FieldNames[i]] = bad] :
        i \in 1..Len(FieldNames), bad \in Placeholders }

Events == ValidEvents \cup InvalidEvents

NoEvent == [f \in {FieldNames[i] : i \in 1..Len(FieldNames)} |-> None]

\* validate_request_data (imported at main.py:11, not among the sources):
\* the fields when every one is present and no placeholder, else nothing.
validate_request_data(request_data) ==
    IF \A i \in 1..Len(FieldNames) : request_data[FieldNames[i]] \notin Placeholders
    THEN [ok |-> TRUE, fields |-> request_data]
    ELSE [ok |-> FALSE, fields |-> NoEvent]

\* make_redis_json_str (imported at main.py:13, not among the sources): the
\* deterministic, order-preserving encoding of the fields; <<>> stands for
\* the exception it raises when there are no fields to encode.
make_redis_json_str(validated) ==
    IF validated.ok
    THEN [i \in 1..Len(FieldNames) |-> validated.fields[FieldNames[i]]]
    ELSE <<>>

\* The listener's decoding of an expired key into a job; NoEvent when the
\* key is no encoding of a job.
decode_key(key) ==
    IF Len(key) = Len(FieldNames)
    THEN [f \in DOMAIN NoEvent |->
            key[CHOOSE i \in 1..Len(FieldNames) : FieldNames[i] = f]]
    ELSE NoEvent

\* main.py:145-146: the key is the encoding of the validated fields.
trigger_redis_key_unvalidated(request_data) ==
    make_redis_json_str([ok |-> TRUE, fields |-> request_data])
trigger_redis_key(request_data) ==
    make_redis_json_str(validate_request_data(request_data))

KeyContact(key) == key[1]

LiveKeysOf(c) == { k \in DOMAIN store : KeyContact(k) = c }

EmptyStore == [k \in {} |-> 0]

\* redis SETEX key seconds value: the key is set, or overwritten, with the
\* whole time to live.
setex(st, key, seconds) ==
    [k \in DOMAIN st \cup {key} |-> IF k = key THEN seconds ELSE st[k]]

\* What the awaited SETEX of main.py:149 can do: return a truthy or a falsy
\* result, or raise (the store is unreachable).
SetexResults == {"ok", "falsy", "raise"}

\* The answer to one request; setex_calls counts the SETEX calls made for it.
Response(status, message, contact, request, wrote, setex_calls) ==
    [status |-> status, message |-> message, ghl_contact_id |-> contact,
     request |-> request, wrote |-> wrote, setex_calls |-> setex_calls]

\* main.py:151-160 with every result taken for a success.
ack_message_always_queued(result) == "Response queued"

\* main.py:151-160: the message of the answer after the SETEX returned.
ack_message(result) ==
    IF result = "ok" THEN "Response queued" ELSE "Failed to queue"

\* main.py:136-142, the fields of a load-test request.
TestFields ==
    [ghl_contact_id |-> "test_contact", thread_id |-> "test_thread",
     assistant_id |-> "test_assistant",
     recent_automated_message_id |-> "test_message", ghl_convo_id |-> "test_convo"]

\* main.py:122-164: one /triggerResponse request, with the outcome of the
\* SETEX it may make (truthy, falsy, or an exception).
trigger_response ==
    /\ submits < MaxSubmits
    /\ submits' = submits + 1
    /\ \E request_data \in Events :
        LET validated_fields ==
                IF IS_LOAD_TEST THEN [ok |-> TRUE, fields |-> TestFields]
                ELSE validate_request_data(request_data)
            redis_key ==
                IF IS_LOAD_TEST THEN <<TEST_REDIS_PREFIX \o uuid4(submits + 1)>>
                ELSE trigger_redis_key(request_data)
            contact == validated_fields.fields.ghl_contact_id
        IN IF IS_LOAD_TEST /\ ENVIRONMENT = "production"
           THEN \* main.py:126-130
                /\ response' = Response(403, "Load testing not allowed in production",
                                        None, request_data, FALSE, 0)
                /\ UNCHANGED <<store, ever_keys, bursts>>
           ELSE IF redis_key = <<>>
           THEN \* the encoding raised: main.py:162-164
                /\ response' = Response(500, "Internal code error", None,
                                        request_data, FALSE, 0)
                /\ UNCHANGED <<store, ever_keys, bursts>>
           ELSE \E result \in SetexResults :
                /\ store' = IF result = "ok" THEN setex(store, redis_key, TTL)
                            ELSE store
                /\ ever_keys' = IF result = "ok" THEN ever_keys \cup {redis_key}
                                ELSE ever_keys
                /\ bursts' = IF result = "ok" /\ LiveKeysOf(KeyContact(redis_key)) = {}
                                /\ KeyContact(redis_key) \in Contacts
                             THEN [bursts EXCEPT ![KeyContact(redis_key)] = @ + 1]
                             ELSE bursts
                /\ response' =
                     IF result = "raise" \/ ~validated_fields.ok
                     THEN Response(500, "Internal code error", None,
                                   request_data, result = "ok", 1)
                     ELSE Response(200, ack_message(result), contact, request_data,
                                   result = "ok", 1)
    /\ UNCHANGED <<channel, queue, locked, waiting, running, enq, handed,
                   IS_LOAD_TEST, ENVIRONMENT, listening>>
    /\ UNCHANGED <<kbVars, advVars, initVars, trace>>

\* main.py:271-307: one /loadtest/full-flow request.  It sets the key
\* loadtest:thread_<uuid> for 10 seconds, in every configuration; an
\* exception of the SETEX is answered with status 500.
full_flow_test ==
    /\ submits < MaxSubmits
    /\ submits' = submits + 1
    /\ LET redis_key == <<TEST_REDIS_PREFIX \o "thread_" \o uuid4(submits + 1)>>
       IN \E result \in {"ok", "raise"} :
            /\ store' = IF result = "ok" THEN setex(store, redis_key, TTL) ELSE store
            /\ ever_keys' = IF result = "ok" THEN ever_keys \cup {redis_key}
                             ELSE ever_keys
            /\ response' = IF result = "ok"
                            THEN Response(200, "success", None, NoEvent, TRUE, 1)
                            ELSE Response(500, "error", None, NoEvent, FALSE, 1)
    /\ UNCHANGED <<channel, queue, locked, waiting, running, enq, handed, bursts,
                   IS_LOAD_TEST, ENVIRONMENT, listening>>
    /\ UNCHANGED <<kbVars, advVars, initVars, trace>>

Permutations_(S) ==
    { p \in [1..Cardinality(S) -> S] : \A j, k \in DOMAIN p : j # k => p[j] # p[k] }

\* One second passes in the Delay Store: every live key has one second less,
\* and a key with none left is deleted and its expiry published (main.py:34
\* turns the "Ex" keyspace events on), in any order among keys that expire
\* together.
Tick ==
    /\ DOMAIN store # {}
    /\ LET expiring == { k \in DOMAIN store : store[k] = 1 }
       IN /\ store' = [k \in DOMAIN store \ expiring |-> store[k] - 1]
          /\ \E order \in Permutations_(expiring) : channel' = channel \o order
    /\ UNCHANGED <<response, queue, locked, waiting, running, enq, handed,
                   bursts, submits, ever_keys, IS_LOAD_TEST, ENVIRONMENT, listening>>
    /\ UNCHANGED <<kbVars, advVars, initVars, trace>>

\* Dispatcher (spec 4.3): the lock of contact c can be taken.
lock_free_always(c) == TRUE
lock_free(c) == ~locked[c]

\* Dispatcher (spec 4.3): the position of the job a drain loop pops.
pop_position_last(q) == Len(q)
pop_position(q) == 1

Remove(q, i) == SubSeq(q, 1, i - 1) \o SubSeq(q, i + 1, Len(q))

\* Expiry Listener (spec 4.2): whether the listen loop goes on after the
\* notification that decoded to job (NoEvent: the key is no job).
listener_stops_on_malformed(job) == job # NoEvent
listener_survives(job) == TRUE

\* Expiry Listener and Dispatcher.enqueue (spec 4.2, 4.3): the next expiry
\* notification is decoded; a key that is no job is logged and skipped; a
\* job is appended to its contact's queue, and a processing task is started
\* unless one holds the contact's lock.
ExpiryListener ==
    /\ listening
    /\ channel # <<>>
    /\ channel' = Tail(channel)
    /\ LET job == decode_key(Head(channel))
           c == job.ghl_contact_id
       IN /\ listening' = listener_survives(job)
          /\ IF job = NoEvent \/ c \notin Contacts
             THEN /\ UNCHANGED <<queue, waiting, enq>>
                  /\ trace' = Append(trace, Ev("log", "Expiry Listener -- decode failed",
                                               Head(channel), "error", 0))
             ELSE /\ queue' = [queue EXCEPT ![c] = Append(@, job)]
                  /\ enq' = [enq EXCEPT ![c] = Append(@, job)]
                  /\ waiting' = IF locked[c] THEN waiting
                                ELSE [waiting EXCEPT ![c] = @ + 1]
                  /\ trace' = Append(trace, Ev("enqueue", c, Head(channel), "", 0))
    /\ UNCHANGED <<store, response, locked, running, handed, bursts, submits,
                   ever_keys, IS_LOAD_TEST, ENVIRONMENT>>
    /\ UNCHANGED <<kbVars, advVars, initVars>>

\* Dispatcher.process (spec 4.3): a started task takes the contact's lock
\* and hands the front job to the Advancer; with nothing queued it releases
\* the lock at once and exits.
ProcessAcquire(c) ==
    /\ waiting[c] > 0
    /\ lock_free(c)
    /\ waiting' = [waiting EXCEPT ![c] = @ - 1]
    /\ IF queue[c] # <<>>
       THEN LET i == pop_position(queue[c])
            IN /\ running' = [running EXCEPT ![c] = Append(@, queue[c][i])]
               /\ handed' = [handed EXCEPT ![c] = Append(@, queue[c][i])]
               /\ queue' = [queue EXCEPT ![c] = Remove(@, i)]
               /\ locked' = [locked EXCEPT ![c] = TRUE]
       ELSE UNCHANGED <<running, handed, queue, locked>>
    /\ UNCHANGED <<store, channel, response, enq, bursts, submits, ever_keys,
                   IS_LOAD_TEST, ENVIRONMENT, listening>>
    /\ UNCHANGED <<kbVars, advVars, initVars, trace>>

\* Dispatcher.process (spec 4.3): advance_convo returns to the drain loop,
\* which hands over the next queued job, or releases the lock and exits when
\* the queue is empty.
ProcessAdvanced(c) ==
    /\ running[c] # <<>>
    /\ \E r \in 1..Len(running[c]) :
        IF queue[c] # <<>>
        THEN LET i == pop_position(queue[c])
             IN /\ running' = [running EXCEPT ![c] = Append(Remove(@, r), queue[c][i])]
                /\ handed' = [handed EXCEPT ![c] = Append(@, queue[c][i])]
                /\ queue' = [queue EXCEPT ![c] = Remove(@, i)]
                /\ UNCHANGED locked
        ELSE /\ running' = [running EXCEPT ![c] = Remove(@, r)]
             /\ locked' = [locked EXCEPT ![c] = FALSE]
             /\ UNCHANGED <<handed, queue>>
    /\ UNCHANGED <<store, channel, response, waiting, enq, bursts, submits,
                   ever_keys, IS_LOAD_TEST, ENVIRONMENT, listening>>
    /\ UNCHANGED <<kbVars, advVars, initVars, trace>>

\* main.py:20-21: LOAD_TEST_MODE defaults to "false", ENVIRONMENT to
\* "production"; load testing needs another environment.
Configurations ==
    { [IS_LOAD_TEST |-> FALSE, ENVIRONMENT |-> "production"],
      [IS_LOAD_TEST |-> TRUE, ENVIRONMENT |-> "production"],
      [IS_LOAD_TEST |-> TRUE, ENVIRONMENT |-> "staging"] }

PipeStart ==
    /\ store = EmptyStore
    /\ channel = <<>>
    /\ response = Response(0, "", None, NoEvent, FALSE, 0)
    /\ queue = [c \in Contacts |-> <<>>]
    /\ locked = [c \in Contacts |-> FALSE]
    /\ waiting = [c \in Contacts |-> 0]
    /\ running = [c \in Contacts |-> <<>>]
    /\ enq = [c \in Contacts |-> <<>>]
    /\ handed = [c \in Contacts |-> <<>>]
    /\ bursts = [c \in Contacts |-> 0]
    /\ submits = 0
    /\ ever_keys = {}
    /\ listening = TRUE

PipeIdle == PipeStart /\ IS_LOAD_TEST = FALSE /\ ENVIRONMENT = "production"

(***************************************************************************)
(* The Conversation Advancer, functions.py:54-265.  Each action resumes    *)
(* the coroutine from one await with a result of the awaited collaborator  *)
(* and runs it to the next await.                                          *)
(***************************************************************************)
MaxMsgs == 3

MsgIds == {"m1", "m2", "m3"}

\* A CRM message {id, direction, body}; the body is told by the id.
Message(id, dir) == [id |-> id, direction |-> dir, body |-> "body of " \o id]

Messages == { Message(id, dir) : id \in MsgIds, dir \in {"inbound", "outbound"} }

SeqsUpTo(S, n) == UNION { [1..k -> S] : k \in 0..n }

\* What retrieve_messages can return (functions.py:321-350): [] on every
\* failure, else the conversation's messages, most recent first, ids distinct.
MessageLists ==
    { ms \in SeqsUpTo(Messages, MaxMsgs) :
        \A j, k \in 1..Len(ms) : j # k => ms[j].id # ms[k].id }

\* functions.py:114, new_messages.insert(0, item): the item goes in front.
insert_back(new_messages, item) == Append(new_messages, item)
insert_front(new_messages, item) == <<item>> \o new_messages

\* functions.py:115, "if found_recent and new_messages".
found_or_new(found_recent, new_messages) == found_recent \/ new_messages # <<>>
found_and_new(found_recent, new_messages) == found_recent /\ new_messages # <<>>

\* functions.py:107-114, the loop from message k on: found_recent and
\* new_messages (each older inbound message is put in front).
RECURSIVE compile_loop(_, _, _, _)
compile_loop(all_messages_, k, recent_automated_message_id, new_messages) ==
    IF k > Len(all_messages_)
    THEN [found_recent |-> FALSE, new_messages |-> new_messages]
    ELSE IF all_messages_[k].id = recent_automated_message_id
    THEN [found_recent |-> TRUE, new_messages |-> new_messages]
    ELSE compile_loop(all_messages_, k + 1, recent_automated_message_id,
            IF all_messages_[k].direction = "inbound"
            THEN insert_front(new_messages,
                              [role |-> "user", content |-> all_messages_[k].body])
            ELSE new_messages)

\* functions.py:101-123 on the result of retrieve_messages; <<>> stands for
\* the None it returns on failure (advance_convo only tests "not messages").
compile_messages(all_messages_, recent_automated_message_id) ==
    IF all_messages_ # <<>>
    THEN LET c == compile_loop(all_messages_, 1, recent_automated_message_id, <<>>)
         IN IF found_and_new(c.found_recent, c.new_messages)
            THEN c.new_messages ELSE <<>>
    ELSE <<>>

\* The citation markers of functions.py:171, U+3010 and U+3011, written in
\* ASCII here.
OpenMarker == "["
CloseMarker == "]"

\* str.find: the first index of ch in s, 0 when there is none.
Find(s, ch) ==
    IF \E k \in 1..Len(s) : s[k] = ch
    THEN CHOOSE k \in 1..Len(s) : s[k] = ch /\ \A j \in 1..(k - 1) : s[j] # ch
    ELSE 0

\* functions.py:171-172, on a text given as its sequence of characters.
strip_citation_identity(ai_content_) == ai_content_
strip_citation(ai_content_) ==
    IF Find(ai_content_, OpenMarker) # 0 /\ Find(ai_content_, CloseMarker) # 0
    THEN SubSeq(ai_content_, 1, Find(ai_content_, OpenMarker) - 1)
         \o SubSeq(ai_content_, Find(ai_content_, CloseMarker) + 1, Len(ai_content_))
    ELSE ai_content_

\* The jobs handed to advance_convo: a mapping (dict.get gives None for an
\* absent key) or a value that is no mapping.
\* bot_filter_tag is the tag of the automation flow that owns the contact:
\* the one /initialize gave it (main.py:56, 94).  advance_convo reads the
\* five other fields (functions.py:57-61).
Job(mapping, contact, watermark, filter_tag) ==
    [is_mapping |-> mapping, ghl_contact_id |-> contact, ghl_convo_id |-> "convo1",
     thread_id |-> "thread1", assistant_id |-> "asst1",
     recent_automated_message_id |-> watermark, bot_filter_tag |-> filter_tag]

NonMappingJob == Job(FALSE, None, None, None)

\* main.py:56: the bot_filter_tag of an /initialize request, any tag name.
FilterTags == {"bott", "sales_bot"}

\* Jobs of contact c1 with either watermark and either tag, a job without
\* contact id, and a value that is no mapping.
Jobs == { Job(TRUE, "c1", w, "bott") : w \in {"m1", "m0"} }
            \cup { Job(TRUE, "c1", "m1", t) : t \in FilterTags }
            \cup {Job(TRUE, None, "m1", "bott"), NonMappingJob}

\* What create_and_poll can give (functions.py:77-81): an exception, a falsy
\* value, or a run with a status and, for requires_action, its first tool
\* call: the keys of its JSON arguments, or arguments that do not parse, or
\* no tool call at all.
ArgKeys == {"handoff", "reason", "tier", "other"}

\* The ids of tool calls (tool_call.id, functions.py:219).
ToolCallIds == {"call_1", "call_2"}

\* The argument keys of the tool calls after the first one: there is none,
\* or one that asks for a handoff.
LaterKeys == {{}, {"handoff"}}

ToolCalls ==
    { [shape |-> "ok", keys |-> ks, id |-> id, later |-> l]
        : ks \in SUBSET ArgKeys, id \in ToolCallIds, l \in LaterKeys }
        \cup { [shape |-> sh, keys |-> {}, id |-> None, later |-> {}]
                 : sh \in {"bad_json", "no_tool_calls"} }

NoToolCall == [shape |-> "no_tool_calls", keys |-> {}, id |-> None, later |-> {}]

\* functions.py:203-204: the arguments of tool_calls[0], and of no other.
function_args(tool) == tool.keys

RunStatuses == {"completed", "requires_action", "failed", "expired", "cancelled",
                "incomplete", "queued", "in_progress"}

PollOutcomes ==
    { [kind |-> k, status |-> "", tool |-> NoToolCall] : k \in {"raise", "none"} }
      \cup { [kind |-> "run", status |-> st, tool |-> NoToolCall]
               : st \in RunStatuses \ {"requires_action"} }
      \cup { [kind |-> "run", status |-> "requires_action", tool |-> t]
               : t \in ToolCalls }

NoRun == [kind |-> "none", status |-> "", tool |-> NoToolCall]

\* The text "hello[1]world" with the citation markers around the 1.
HelloCitedWorld ==
    <<"h", "e", "l", "l", "o", OpenMarker, "1", CloseMarker, "w", "o", "r", "l", "d">>

\* Texts of a completion, as sequences of characters.
Contents ==
    { <<"h", "i">>,
      HelloCitedWorld,
      <<"a", CloseMarker, "b", OpenMarker, "c">> }

\* What messages.list can give (functions.py:163-170).
ListOutcomes ==
    { [kind |-> k, content |-> <<>>] : k \in {"raise", "empty", "malformed"} }
      \cup { [kind |-> "data", content |-> c] : c \in Contents }

NoList == [kind |-> "empty", content |-> <<>>]

\* The message ids a successful send_message returns (functions.py:395-400).
SentIds == {"m8", "m9"}

\* The plan of the "Bot Failure" compensation, functions.py:66-73, 83-90, 148-155.
BotFailurePlan(ghl_contact_id) ==
    << [name |-> "remove_tags", args |-> <<ghl_contact_id, "bott">>, retries |-> 1],
       [name |-> "add_tags", args |-> <<ghl_contact_id, "bot failure">>, retries |-> 1] >>

\* The plans of the named actions, functions.py:230-265.
ActionPlan(ghl_contact_id, text) ==
    << [name |-> "remove_tags", args |-> <<ghl_contact_id, "bott">>, retries |-> 1],
       [name |-> "send_message", args |-> <<ghl_contact_id, text>>, retries |-> 1] >>

\* functions.py:206-214: the named action the argument keys select.  For
\* keys without one of the three, line 213 logs and line 214 returns None
\* (with no key at all the log's keys()[0] raises, and line 226 returns None).
dispatch_tier_first(keys) ==
    IF "tier" \in keys THEN "tier1_action"
    ELSE IF "reason" \in keys THEN "end_action"
    ELSE IF "handoff" \in keys THEN "handoff_action"
    ELSE "unhandled"
dispatch_default_handoff(keys) ==
    IF "reason" \in keys /\ "handoff" \notin keys THEN "end_action"
    ELSE IF "tier" \in keys /\ "handoff" \notin keys THEN "tier1_action"
    ELSE "handoff_action"
dispatch(keys) ==
    IF "handoff" \in keys THEN "handoff_action"
    ELSE IF "reason" \in keys THEN "end_action"
    ELSE IF "tier" \in keys THEN "tier1_action"
    ELSE "unhandled"

\* The "Bot Failure" compensation started from trace tr; advance_convo then
\* waits for it in "kill".
BotFailure(tr) ==
    /\ KILL_BOT("Bot Failure", convo_data.ghl_contact_id,
                BotFailurePlan(convo_data.ghl_contact_id), tr)
    /\ adv_pc' = "kill"

\* functions.py:54-64 and 96-97: the call with its argument.  A value that is
\* no mapping has no get: the AttributeError is caught at line 96, and line 97
\* reads ghl_contact_id, which was never assigned: the UnboundLocalError
\* leaves advance_convo.
advance_convo ==
    /\ adv_pc = "idle"
    /\ \E job \in Jobs :
        /\ convo_data' = job
        /\ IF job.is_mapping
           THEN /\ adv_pc' = "retrieve"
                /\ trace' = Append(trace, Ev("advance_convo", "", <<job.ghl_contact_id>>, "", 0))
           ELSE /\ adv_pc' = "raised"
                /\ trace' = Append(trace, Ev("raise", "UnboundLocalError", <<>>, "raise", 0))
    /\ UNCHANGED <<messages, run_response, ai_content, message_id,
                   env_BDMCOUSE_LINK, all_messages, ai_messages, crm_watermark>>
    /\ UNCHANGED kbVars
    /\ UNCHANGED <<pipeVars, initVars>>

\* functions.py:65, "if not messages".
no_messages_never(compiled) == FALSE
no_messages(compiled) == compiled = <<>>

\* functions.py:64-77 and 101-123: retrieve_messages returns; compile_messages
\* compiles (the record of it tells found_recent and how many inbound
\* messages the loop collected); without messages the compensation runs,
\* else create_and_poll is awaited.
Adv_Retrieved ==
    /\ adv_pc = "retrieve"
    /\ \E fetched \in MessageLists :
        LET tr1 == Append(trace, Ev("retrieve_messages", "",
                            <<convo_data.ghl_contact_id, convo_data.ghl_convo_id>>,
                            IF fetched = <<>> THEN "empty" ELSE "messages",
                            Len(fetched)))
            compiled == compile_messages(fetched,
                                         convo_data.recent_automated_message_id)
            loop == compile_loop(fetched, 1,
                                 convo_data.recent_automated_message_id, <<>>)
            tr2 == Append(tr1, Ev("compile_messages", "",
                            <<IF loop.found_recent THEN "found_recent" ELSE "not_found">>,
                            IF compiled = <<>> THEN "none" ELSE "messages",
                            Len(loop.new_messages)))
        IN /\ messages' = compiled
           /\ IF no_messages(compiled)
              THEN BotFailure(tr2)
              ELSE /\ adv_pc' = "poll"
                   /\ trace' = tr2
                   /\ UNCHANGED kbVars
    /\ UNCHANGED <<convo_data, run_response, ai_content, message_id,
                   env_BDMCOUSE_LINK, all_messages, ai_messages, crm_watermark>>
    /\ UNCHANGED <<pipeVars, initVars>>

\* functions.py:230-265: the named action's own KILL_BOT call; tier1_action
\* concatenates os.getenv('BDMCOUSE_LINK') first, a TypeError when it is unset.
named_action_raises(action) == action = "tier1_action" /\ env_BDMCOUSE_LINK = None

named_action_text(action) ==
    IF action = "handoff_action" THEN "handoff"
    ELSE IF action = "end_action" THEN "force end"
    ELSE "This course has everything you need to get started"

named_action_reason(action) ==
    IF action = "handoff_action" THEN "Handoff Action"
    ELSE IF action = "end_action" THEN "End Action"
    ELSE "Tier 1 Action"

\* functions.py:133-145: the branch process_run_response takes on a status.
run_branch_lenient(run_status) ==
    IF run_status = "requires_action" THEN "function" ELSE "message"
run_branch(run_status) ==
    IF run_status = "completed" THEN "message"
    ELSE IF run_status = "requires_action" THEN "function"
    ELSE "failed"

\* functions.py:77-97 and 127-156, 200-214: create_and_poll returns or raises.
Adv_Polled ==
    /\ adv_pc = "poll"
    /\ \E out \in PollOutcomes :
        LET tr1 == Append(trace, Ev("create_and_poll", out.status,
                            <<convo_data.thread_id, convo_data.assistant_id>>,
                            out.kind, Len(messages)))
            action == dispatch(function_args(out.tool))
        IN /\ run_response' = out
           /\ CASE out.kind = "raise" ->
                    \* line 96-97: logged, nothing else
                    /\ adv_pc' = "done"
                    /\ trace' = Append(tr1, Ev("log", "Advance Convo", <<>>, "error", 0))
                    /\ UNCHANGED kbVars
                [] out.kind = "none" -> BotFailure(tr1)
                [] out.kind = "run" /\ run_branch(out.status) = "message" ->
                    /\ adv_pc' = "list"
                    /\ trace' = tr1
                    /\ UNCHANGED kbVars
                [] out.kind = "run" /\ run_branch(out.status) = "function" ->
                    IF out.tool.shape = "ok" /\ action # "unhandled"
                       /\ ~named_action_raises(action)
                    THEN /\ KILL_BOT(named_action_reason(action),
                                     convo_data.ghl_contact_id,
                                     ActionPlan(convo_data.ghl_contact_id,
                                                named_action_text(action)),
                                     Append(tr1, Ev("dispatch", action, <<>>, "called",
                                                    Cardinality(function_args(out.tool)))))
                         /\ adv_pc' = "action"
                    ELSE BotFailure(Append(tr1, Ev("dispatch", action, <<>>,
                                    IF out.tool.shape # "ok" THEN "malformed"
                                    ELSE IF action = "unhandled" THEN "none"
                                    ELSE "raise", Cardinality(function_args(out.tool)))))
                [] OTHER -> BotFailure(tr1)
    /\ UNCHANGED <<convo_data, messages, ai_content, message_id,
                   env_BDMCOUSE_LINK, all_messages, ai_messages, crm_watermark>>
    /\ UNCHANGED <<pipeVars, initVars>>

\* functions.py:163-175: messages.list returns or raises; the last message's
\* text is stripped and send_message awaited.
Adv_Listed ==
    /\ adv_pc = "list"
    /\ \E out \in ListOutcomes :
        LET tr1 == Append(trace, Ev("messages_list", "", <<convo_data.thread_id>>,
                                    out.kind, 0))
        IN /\ ai_messages' = out
           /\ IF out.kind = "data"
              THEN /\ ai_content' = strip_citation(out.content)
                   /\ adv_pc' = "send"
                   /\ trace' = tr1
                   /\ UNCHANGED kbVars
              ELSE /\ BotFailure(tr1)
                   /\ UNCHANGED ai_content
    /\ UNCHANGED <<convo_data, messages, run_response, message_id,
                   env_BDMCOUSE_LINK, all_messages, crm_watermark>>
    /\ UNCHANGED <<pipeVars, initVars>>

\* functions.py:176-177 "if not response: return None".
send_failed_never(res) == FALSE
send_failed(res) == res = "none"

\* functions.py:175-189: send_message returns the response or None (it never
\* raises, functions.py:401-403).
Adv_Sent ==
    /\ adv_pc = "send"
    /\ \E res \in SentIds \cup {"none"} :
        LET tr1 == Append(trace, Ev("send_message", "reply",
                            <<convo_data.ghl_contact_id>> \o ai_content, res, 0))
        IN IF send_failed(res)
           THEN /\ BotFailure(tr1)
                /\ UNCHANGED message_id
           ELSE /\ message_id' = res
                /\ adv_pc' = "update"
                /\ trace' = tr1
                /\ UNCHANGED kbVars
    /\ UNCHANGED <<convo_data, messages, run_response, ai_content,
                   env_BDMCOUSE_LINK, all_messages, ai_messages, crm_watermark>>
    /\ UNCHANGED <<pipeVars, initVars>>

\* functions.py:189: the awaited update_contact is a statement of its own;
\* whatever it returns, process_message_run goes on to lines 191-192.
update_ends_branch_on_none(res) == res = "none"
update_ends_branch(res) == FALSE

\* functions.py:189-192 and 352-373: update_contact returns the response or
\* None (it never raises); its result is not looked at.
Adv_Updated ==
    /\ adv_pc = "update"
    /\ \E res \in {"ok", "none"} :
        LET tr1 == Append(trace,
                        Ev("update_contact", "recent_automated_message_id",
                           <<convo_data.ghl_contact_id, message_id>>, res, 0))
        IN /\ crm_watermark' = IF res = "ok" THEN message_id ELSE crm_watermark
           /\ IF update_ends_branch(res)
              THEN BotFailure(tr1)
              ELSE /\ trace' = Append(tr1, Ev("log", "AI Message -- Processed and sent",
                                              <<message_id>>, "info", 0))
                   /\ adv_pc' = "done"
                   /\ UNCHANGED kbVars
    /\ UNCHANGED <<convo_data, messages, run_response, ai_content, message_id,
                   env_BDMCOUSE_LINK, all_messages, ai_messages>>
    /\ UNCHANGED <<pipeVars, initVars>>

\* functions.py:74, 91 and 156-157, 94-97: after the awaited "Bot Failure"
\* KILL_BOT advance_convo returns (the sites of lines 66 and 83), or
\* process_run_response logs and returns and advance_convo ends after it;
\* no site goes on to a later step.
returns_after_kill_never(compiled) == FALSE
returns_after_kill(compiled) == TRUE

\* functions.py:74, 91, 156: the "Bot Failure" KILL_BOT has returned.
Adv_KillReturned ==
    /\ adv_pc = "kill"
    /\ kb_pc = "returned"
    /\ adv_pc' = IF returns_after_kill(messages) THEN "done" ELSE "poll"
    /\ kb_pc' = "idle"
    /\ UNCHANGED <<kb_reason, kb_contact, kb_plan, kb_i, kb_try, kb_failed, trace>>
    /\ UNCHANGED <<convo_data, messages, run_response, ai_content, message_id,
                   env_BDMCOUSE_LINK, all_messages, ai_messages, crm_watermark>>
    /\ UNCHANGED <<pipeVars, initVars>>

\* functions.py:207-211, "await ..._action(ghl_contact_id)": the coroutine
\* goes on when the named action's KILL_BOT has returned.
action_awaited_while_running(pc) == pc \in {"run", "returned"}
action_awaited(pc) == pc = "returned"

\* functions.py:216: the named action's KILL_BOT has returned and
\* submit_tool_outputs is awaited.
Adv_ActionReturned ==
    /\ adv_pc = "action"
    /\ action_awaited(kb_pc)
    /\ adv_pc' = "ack"
    /\ kb_pc' = "idle"
    /\ UNCHANGED <<kb_reason, kb_contact, kb_plan, kb_i, kb_try, kb_failed, trace>>
    /\ UNCHANGED <<convo_data, messages, run_response, ai_content, message_id,
                   env_BDMCOUSE_LINK, all_messages, ai_messages, crm_watermark>>
    /\ UNCHANGED <<pipeVars, initVars>>

\* functions.py:216-226: submit_tool_outputs returns or raises.
Adv_Acked ==
    /\ adv_pc = "ack"
    /\ \E res \in {"ok", "raise"} :
        LET tr1 == Append(trace, Ev("submit_tool_outputs", "success",
                                    <<convo_data.thread_id, run_response.tool.id>>,
                                    res, 0))
        IN IF res = "ok"
           THEN /\ adv_pc' = "done"
                /\ trace' = tr1
                /\ UNCHANGED kbVars
           ELSE BotFailure(tr1)
    /\ UNCHANGED <<convo_data, messages, run_response, ai_content, message_id,
                   env_BDMCOUSE_LINK, all_messages, ai_messages, crm_watermark>>
    /\ UNCHANGED <<pipeVars, initVars>>

AdvIdle ==
    /\ adv_pc = "idle"
    /\ convo_data = NonMappingJob
    /\ messages = <<>>
    /\ run_response = NoRun
    /\ ai_content = <<>>
    /\ message_id = None
    /\ env_BDMCOUSE_LINK = None
    /\ crm_watermark = "m1"
    /\ all_messages = <<>>
    /\ ai_messages = NoList

vars == <<kb_pc, kb_reason, kb_contact, kb_plan, kb_i, kb_try, kb_failed, trace,
          adv_pc, convo_data, messages, run_response, ai_content, message_id,
          env_BDMCOUSE_LINK, crm_watermark, all_messages, ai_messages,
          store, channel, response, queue, locked, waiting, running,
          enq, handed, bursts, submits, ever_keys, IS_LOAD_TEST, ENVIRONMENT,
          listening,
          init_pc, data, init_locals, init_response>>

(***************************************************************************)
(* SpecAdvance: advance_convo called once, on any job, with BDMCOUSE_LINK  *)
(* set or not, against collaborators that answer in any way they can.      *)
(***************************************************************************)
InitAdvance ==
    /\ KbIdle
    /\ InitializeIdle
    /\ PipeIdle
    /\ trace = <<>>
    /\ adv_pc = "idle"
    /\ convo_data = NonMappingJob
    /\ messages = <<>>
    /\ run_response = NoRun
    /\ ai_content = <<>>
    /\ message_id = None
    /\ env_BDMCOUSE_LINK \in {"https://link", None}
    /\ crm_watermark = "m1"
    /\ all_messages = <<>>
    /\ ai_messages = NoList

NextAdvance ==
    \/ advance_convo
    \/ Adv_Retrieved
    \/ Adv_Polled
    \/ Adv_Listed
    \/ Adv_Sent
    \/ Adv_Updated
    \/ Adv_KillReturned
    \/ Adv_ActionReturned
    \/ Adv_Acked
    \/ KB_Attempt

SpecAdvance == InitAdvance /\ [][NextAdvance]_vars

(***************************************************************************)
(* SpecKill: KILL_BOT called once on any plan of at most MaxPlanLen        *)
(* actions, each with 1..MaxRetries retries (every plan of the program has *)
(* retries >= 1).  The action at position i is named PlanNames[i].         *)
(***************************************************************************)
PlanNames == <<"remove_tags", "add_tags", "send_message", "update_contact">>

PlanName(i) == IF i <= Len(PlanNames) THEN PlanNames[i] ELSE "action"

Plans ==
    UNION { { [i \in 1..len |->
                 [name |-> PlanName(i), args |-> <<"c1">>, retries |-> rs[i]]]
              : rs \in [1..len -> 1..MaxRetries] }
            : len \in 0..MaxPlanLen }

KillCall ==
    /\ kb_pc = "idle"
    /\ \E plan \in Plans : KILL_BOT("Bot Failure", "c1", plan, trace)
    /\ UNCHANGED advVars
    /\ UNCHANGED <<pipeVars, initVars>>

InitKill == KbIdle /\ AdvIdle /\ PipeIdle /\ InitializeIdle /\ trace = <<>>

NextKill == KillCall \/ KB_Attempt

SpecKill == InitKill /\ [][NextKill]_vars

(***************************************************************************)
(* SpecCompile: compile_messages (functions.py:101-123) applied once to    *)
(* any list retrieve_messages can return, of at most MaxCompileLen         *)
(* messages with distinct ids, most recent first, and to any watermark,    *)
(* in the list or not ("m0").                                              *)
(***************************************************************************)
MaxCompileLen == 4

CompileIds == { "m" \o ToString(i) : i \in 1..MaxCompileLen }

CompileLists ==
    { ms \in SeqsUpTo({ Message(id, dir) : id \in CompileIds,
                                          dir \in {"inbound", "outbound"} },
                      MaxCompileLen) :
        \A j, k \in 1..Len(ms) : j # k => ms[j].id # ms[k].id }

CompileWatermarks == CompileIds \cup {"m0"}

InitCompile ==
    /\ KbIdle
    /\ InitializeIdle
    /\ PipeIdle
    /\ trace = <<>>
    /\ adv_pc = "compile"
    /\ convo_data \in { Job(TRUE, "c1", w, "bott") : w \in CompileWatermarks }
    /\ all_messages \in CompileLists
    /\ messages = <<>>
    /\ run_response = NoRun
    /\ ai_content = <<>>
    /\ message_id = None
    /\ env_BDMCOUSE_LINK = None
    /\ crm_watermark = "m1"
    /\ ai_messages = NoList

\* functions.py:106-120: compile_messages from the list it fetched to its
\* return, with the error record of line 118.
compile_step ==
    /\ adv_pc = "compile"
    /\ LET compiled == compile_messages(all_messages,
                                        convo_data.recent_automated_message_id)
       IN /\ messages' = compiled
          /\ trace' = IF all_messages # <<>> /\ compiled = <<>>
                      THEN Append(trace, Ev("log",
                             "Compile Messages -- No message identifier found or no new messages",
                             <<convo_data.ghl_contact_id>>, "error", 0))
                      ELSE trace
    /\ adv_pc' = "compiled"
    /\ UNCHANGED <<convo_data, run_response, ai_content, message_id,
                   env_BDMCOUSE_LINK, crm_watermark, all_messages, ai_messages>>
    /\ UNCHANGED kbVars
    /\ UNCHANGED <<pipeVars, initVars>>

NextCompile == compile_step

SpecCompile == InitCompile /\ [][NextCompile]_vars

(***************************************************************************)
(* SpecStrip: the stripping of functions.py:170-172 applied once to any    *)
(* text of at most MaxContentLen characters, each a letter or one of the   *)
(* two citation markers.                                                   *)
(***************************************************************************)
MaxContentLen == 5

ContentChars == {"a", OpenMarker, CloseMarker}

ContentStrings == SeqsUpTo(ContentChars, MaxContentLen)

InitStrip ==
    /\ KbIdle
    /\ InitializeIdle
    /\ PipeIdle
    /\ trace = <<>>
    /\ adv_pc = "strip"
    /\ convo_data = Job(TRUE, "c1", "m1", "bott")
    /\ all_messages = <<>>
    /\ messages = <<>>
    /\ run_response = NoRun
    /\ ai_messages \in { [kind |-> "data", content |-> c] : c \in ContentStrings }
    /\ ai_content = <<>>
    /\ message_id = None
    /\ env_BDMCOUSE_LINK = None
    /\ crm_watermark = "m1"

\* functions.py:170-172: ai_content is taken from the last message and
\* stripped.
strip_step ==
    /\ adv_pc = "strip"
    /\ ai_content' = strip_citation(ai_messages.content)
    /\ adv_pc' = "stripped"
    /\ UNCHANGED <<convo_data, messages, run_response, message_id,
                   env_BDMCOUSE_LINK, crm_watermark, all_messages, ai_messages>>
    /\ UNCHANGED <<kbVars, trace>>
    /\ UNCHANGED <<pipeVars, initVars>>

NextStrip == strip_step

SpecStrip == InitStrip /\ [][NextStrip]_vars

(***************************************************************************)
(* Spec: the pipeline from /triggerResponse to the hand-over of a job to   *)
(* the Advancer, with at most MaxSubmits requests.                         *)
(***************************************************************************)
Init ==
    /\ KbIdle
    /\ InitializeIdle
    /\ AdvIdle
    /\ trace = <<>>
    /\ PipeStart
    /\ \E cfg \in Configurations :
        IS_LOAD_TEST = cfg.IS_LOAD_TEST /\ ENVIRONMENT = cfg.ENVIRONMENT

Next ==
    \/ trigger_response
    \/ Tick
    \/ ExpiryListener
    \/ \E c \in Contacts : ProcessAcquire(c)
    \/ \E c \in Contacts : ProcessAdvanced(c)

Spec == Init /\ [][Next]_vars

(***************************************************************************)
(* SpecListen: the pipeline outside load-test mode up to the hand-over of  *)
(* a job to the Dispatcher's queue, with the requests to                   *)
(* /loadtest/full-flow, whose keys are no jobs, among the triggers.        *)
(***************************************************************************)
InitListen == Init /\ ~IS_LOAD_TEST

NextListen ==
    \/ trigger_response
    \/ full_flow_test
    \/ Tick
    \/ ExpiryListener

SpecListen == InitListen /\ [][NextListen]_vars

(***************************************************************************)
(* POST /initialize, main.py:48-116: the enrolment of a contact.  One      *)
(* action per await of the handler.                                        *)
(***************************************************************************)
\* The customData of the requests: each field present or missing, or no
\* customData at all.
InitRequests ==
    { InitData(TRUE, c, m, t) : c \in {"c1", None}, m \in {"hello", ""},
                                t \in FilterTags \cup {None} }
        \cup {NoCustomData}

\* main.py:58: "if not (ghl_contact_id and first_message and bot_filter_tag)".
missing_fields(d) ==
    \/ d.ghl_contact_id \in {None, ""}
    \/ d.first_message \in {None, ""}
    \/ d.bot_filter_tag \in {None, ""}

\* main.py:68, 73, 77, 86, 91: the test after each step, "if not x" (and for
\* the thread id also the literal "null").
step_failed_never(result) == FALSE
step_failed(result) == result \in {None, "", "null"}

\* main.py:103-112: the handler of the inner try block, entered with the
\* exception e from trace tr.
InitFailure(e, tr) ==
    /\ KILL_BOT("Bot Failure", data.ghl_contact_id,
                BotFailurePlan(data.ghl_contact_id), tr)
    /\ init_locals' = [init_locals EXCEPT !.e = e]
    /\ init_pc' = "kill"
    /\ UNCHANGED init_response

\* main.py:50-65 and 114-116: the request arrives.  Without customData
\* data.get raises and the outer handler answers 500; with a field missing
\* the answer is 400; else threads.create is awaited.
initialize ==
    /\ init_pc = "idle"
    /\ \E d \in InitRequests :
        /\ data' = d
        /\ IF ~d.is_mapping
           THEN /\ init_pc' = "done"
                /\ init_response' = InitResponse(500, "Internal code error", None)
                /\ trace' = Append(trace, Ev("log", "Unexpected error during initialization",
                                             <<>>, "error", 0))
           ELSE IF missing_fields(d)
           THEN /\ init_pc' = "done"
                /\ init_response' = InitResponse(400, "Missing required fields", None)
                /\ trace' = Append(trace, Ev("log", "Missing required fields",
                                             <<>>, "error", 0))
           ELSE /\ init_pc' = "thread"
                /\ UNCHANGED <<init_response, trace>>
    /\ UNCHANGED init_locals
    /\ UNCHANGED <<kbVars, advVars, pipeVars>>

\* What threads.create gives (main.py:64-67): a thread with an id, which may
\* be empty, "null" or None, or an exception.
ThreadOutcomes == {"thread1", "", "null", None, "raise"}

\* main.py:64-72: threads.create returns or raises.
Init_ThreadCreated ==
    /\ init_pc = "thread"
    /\ \E out \in ThreadOutcomes :
        LET tr1 == Append(trace, Ev("threads_create", "", <<data.first_message>>, out, 0))
        IN IF out = "raise"
           THEN InitFailure("threads.create raised", tr1)
           ELSE IF step_failed(out)
           THEN InitFailure("Failed to start thread", tr1)
           ELSE /\ init_locals' = [init_locals EXCEPT !.thread_id = out]
                /\ init_pc' = "convo"
                /\ trace' = tr1
                /\ UNCHANGED <<kbVars, init_response>>
    /\ UNCHANGED <<data, advVars, pipeVars>>

\* main.py:72-76: get_conversation_id returns an id or None (it never raises,
\* functions.py:292-319).
Init_ConvoId ==
    /\ init_pc = "convo"
    /\ \E out \in {"convo1", None} :
        LET tr1 == Append(trace, Ev("get_conversation_id", "",
                                    <<data.ghl_contact_id>>, out, 0))
        IN IF step_failed(out)
           THEN InitFailure("Failed to get convo id", tr1)
           ELSE /\ init_locals' = [init_locals EXCEPT !.convo_id = out]
                /\ init_pc' = "send"
                /\ trace' = tr1
                /\ UNCHANGED <<kbVars, init_response>>
    /\ UNCHANGED <<data, advVars, pipeVars>>

\* main.py:76-84: send_message returns the response or None.
Init_Sent ==
    /\ init_pc = "send"
    /\ \E out \in SentIds \cup {None} :
        LET tr1 == Append(trace, Ev("send_message", "first",
                                    <<data.ghl_contact_id, data.first_message>>, out, 0))
        IN IF step_failed(out)
           THEN InitFailure("Failed to send message", tr1)
           ELSE /\ init_locals' = [init_locals EXCEPT !.message_id = out]
                /\ init_pc' = "update"
                /\ trace' = tr1
                /\ UNCHANGED <<kbVars, init_response>>
    /\ UNCHANGED <<data, advVars, pipeVars>>

\* main.py:85-89: update_contact returns the response or None.
Init_Updated ==
    /\ init_pc = "update"
    /\ \E out \in {"ok", None} :
        LET tr1 == Append(trace, Ev("update_contact", "",
                                    <<data.ghl_contact_id, init_locals.convo_id,
                                      init_locals.thread_id, init_locals.message_id>>,
                                    out, 0))
        IN IF step_failed(out)
           THEN InitFailure("Failed to update contact", tr1)
           ELSE /\ init_pc' = "tag"
                /\ trace' = tr1
                /\ UNCHANGED <<kbVars, init_response, init_locals>>
    /\ UNCHANGED <<data, advVars, pipeVars>>

\* main.py:90-101: add_tags returns the response or None; after it the
\* success is logged and answered.
Init_Tagged ==
    /\ init_pc = "tag"
    /\ \E out \in {"ok", None} :
        LET tr1 == Append(trace, Ev("add_tags", "",
                                    <<data.ghl_contact_id, data.bot_filter_tag>>, out, 0))
        IN IF step_failed(out)
           THEN InitFailure("Failed to add bot filter tag", tr1)
           ELSE /\ init_pc' = "done"
                /\ init_response' = InitResponse(200, "Initialization successful",
                                                 data.ghl_contact_id)
                /\ trace' = Append(tr1, Ev("log", "Initialization -- Success",
                                           <<data.ghl_contact_id>>, "info", 0))
                /\ UNCHANGED <<kbVars, init_locals>>
    /\ UNCHANGED <<data, advVars, pipeVars>>

\* main.py:112: the compensation has returned; the answer is 400 with the
\* text of the exception.
Init_KillReturned ==
    /\ init_pc = "kill"
    /\ kb_pc = "returned"
    /\ kb_pc' = "idle"
    /\ init_pc' = "done"
    /\ init_response' = InitResponse(400, init_locals.e, None)
    /\ UNCHANGED <<kb_reason, kb_contact, kb_plan, kb_i, kb_try, kb_failed, trace>>
    /\ UNCHANGED <<data, init_locals, advVars, pipeVars>>

InitInitialize == KbIdle /\ AdvIdle /\ PipeIdle /\ InitializeIdle /\ trace = <<>>

NextInitialize ==
    \/ initialize
    \/ Init_ThreadCreated
    \/ Init_ConvoId
    \/ Init_Sent
    \/ Init_Updated
    \/ Init_Tagged
    \/ Init_KillReturned
    \/ KB_Attempt

SpecInitialize == InitInitialize /\ [][NextInitialize]_vars

(***************************************************************************)
(* Claims about the pipeline, checked under Spec.                          *)
(***************************************************************************)
\* C1: for every contact at most one invocation of advance_convo is active,
\* however fast the jobs of the contact are dispatched.
C1_MutualExclusion == \A c \in Contacts : Len(running[c]) <= 1

\* C1 witness: an advance of the contact is active while a second processing
\* task of the same contact waits for the lock and a job is queued.
C1_Witness ==
    \E c \in Contacts : Len(running[c]) = 1 /\ waiting[c] >= 1 /\ queue[c] # <<>>

\* C2: the triggers of one burst (each within the window of the one before,
\* for the same conversation) lead to one dispatched job: no contact ever has
\* more jobs dispatched than it had bursts.
C2_OneJobPerBurst == \A c \in Contacts : Len(enq[c]) <= bursts[c]

\* C3: the jobs handed to the Advancer are, per contact, the jobs enqueued
\* in enqueue order, the rest still queued in order; and the lock of a
\* contact is released only when every job enqueued for it was handed over.
C3_FifoPerContact ==
    /\ [](\A c \in Contacts : handed[c] \o queue[c] = enq[c])
    /\ [][\A c \in Contacts :
            (locked[c] /\ ~locked'[c]) => (queue'[c] = <<>> /\ handed'[c] = enq'[c])]_vars

\* C3 witness: the drain loop of a contact is inside its second, different
\* job, which it took over without a second task (none waits), while jobs of
\* the other contact were handed over too.
C3_Witness ==
    \E c, d \in Contacts :
        /\ c # d
        /\ locked[c]
        /\ Len(handed[c]) = 2
        /\ handed[c][1] # handed[c][2]
        /\ waiting[c] = 0
        /\ handed[d] # <<>>

\* C4: the Delay Store holds at most one live key per conversation.
C4_OneLiveKeyPerConversation ==
    \A c \in Contacts : Cardinality(LiveKeysOf(c)) <= 1

HasPlaceholder(ev) ==
    \E i \in 1..Len(FieldNames) : ev[FieldNames[i]] \in Placeholders

AttemptsOf(i) == SelectSeq(trace, LAMBDA e : e.op = "attempt" /\ e.n = i)

Succeeded(i) == \E k \in 1..Len(AttemptsOf(i)) : AttemptsOf(i)[k].r = "result"

InSeq(x, s) == \E k \in 1..Len(s) : s[k] = x

\* The i-th action's inner loop is over.
ActionFinished(i) == kb_pc = "returned" \/ (kb_pc = "run" /\ i < kb_i)

\* The names of the actions without a successful attempt, in plan order.
NamesWithoutSuccess ==
    LET idx == SelectSeq([i \in 1..Len(kb_plan) |-> i], LAMBDA i : ~Succeeded(i))
    IN [k \in 1..Len(idx) |-> kb_plan[idx[k]].name]

\* C6: every action of the plan is attempted up to the first attempt that
\* returns a non-null result, or `retries` times if none does (a raising
\* attempt is a failed attempt); never more than `retries` times, never again
\* after a success; it is recorded as failed iff no attempt succeeded.
C6_RetrySemantics ==
    kb_pc \in {"run", "returned"} =>
        \A i \in 1..Len(kb_plan) :
            LET at == AttemptsOf(i)
                n == Len(at)
                act == kb_plan[i]
            IN /\ n <= act.retries
               /\ \A k \in 1..(n - 1) : at[k].r # "result"
               /\ ActionFinished(i) =>
                    /\ n = act.retries \/ (n >= 1 /\ at[n].r = "result")
                    /\ InSeq(act.name, kb_failed) <=> ~Succeeded(i)
               /\ ~ActionFinished(i) => ~InSeq(act.name, kb_failed)

\* C6 witness: retries = 3, the attempts fail, fail, succeed, and the action
\* is not recorded as failed.
C6_Witness ==
    /\ kb_pc = "returned"
    /\ \E i \in 1..Len(kb_plan) :
        /\ kb_plan[i].retries = 3
        /\ Len(AttemptsOf(i)) = 3
        /\ AttemptsOf(i)[1].r = "none"
        /\ AttemptsOf(i)[2].r = "raise"
        /\ AttemptsOf(i)[3].r = "result"
        /\ ~InSeq(kb_plan[i].name, kb_failed)

\* C7: no attempt makes KILL_BOT raise; a call that has returned attempted
\* every action of the plan, in plan order, whatever the earlier actions did;
\* and a call that has not returned can always go on.
C7_NeverRaisesNorAborts ==
    /\ kb_pc # "raised"
    /\ kb_pc = "returned" => \A i \in 1..Len(kb_plan) : AttemptsOf(i) # <<>>
    /\ kb_pc = "run" => kb_i \in 1..Len(kb_plan) /\ kb_try < kb_plan[kb_i].retries
    /\ \A j, k \in 1..Len(trace) :
        (j < k /\ trace[j].op = "attempt" /\ trace[k].op = "attempt")
            => trace[j].n <= trace[k].n

\* C7 witness: the first action raised on every attempt and is recorded as
\* failed, the second action was attempted all the same, the call returned.
C7_Witness ==
    /\ kb_pc = "returned"
    /\ Len(kb_plan) = 2
    /\ kb_plan[1].retries = 2
    /\ \A k \in 1..Len(AttemptsOf(1)) : AttemptsOf(1)[k].r = "raise"
    /\ InSeq(kb_plan[1].name, kb_failed)
    /\ AttemptsOf(2) # <<>>

LogEvents == SelectSeq(trace, LAMBDA e : e.op = "log")

\* C8: a call emits no outcome record while actions are still to run and
\* exactly one when it returns, after the last attempt: "all actions
\* successful" at info level iff no action failed, else "some actions failed"
\* at error level with exactly the failed names in plan order.
C8_OneOutcomeRecord ==
    /\ kb_pc = "run" => LogEvents = <<>>
    /\ kb_pc = "returned" =>
        /\ Len(LogEvents) = 1
        /\ trace[Len(trace)] = LogEvents[1]
        /\ LET rec == LogEvents[1]
           IN /\ rec.a = NamesWithoutSuccess
              /\ IF NamesWithoutSuccess = <<>>
                 THEN rec.m = "all actions successful" /\ rec.r = "info"
                 ELSE rec.m = "some actions failed" /\ rec.r = "error"

\* C8 witness: a returned call whose second action alone failed.
C8_Witness ==
    /\ kb_pc = "returned"
    /\ Len(kb_plan) = 2
    /\ Succeeded(1)
    /\ LogEvents[1].a = <<kb_plan[2].name>>
    /\ LogEvents[1].r = "error"

(***************************************************************************)
(* Claims about the Conversation Advancer, checked under SpecAdvance.      *)
(***************************************************************************)
\* The steps of advance_convo and the results that are failures of a step.
StepOps == {"retrieve_messages", "compile_messages", "create_and_poll",
            "messages_list", "send_message", "update_contact", "dispatch",
            "submit_tool_outputs"}

FailureResults == {"raise", "none", "empty", "malformed"}

StepFailed ==
    \E k \in 1..Len(trace) : trace[k].op \in StepOps /\ trace[k].r \in FailureResults

\* The "Bot Failure" compensation was invoked for the job's contact.
Compensated ==
    \E k \in 1..Len(trace) :
        /\ trace[k].op = "KILL_BOT"
        /\ trace[k].m = "Bot Failure"
        /\ trace[k].a = <<convo_data.ghl_contact_id>>

AdvanceEnded == adv_pc \in {"done", "raised"}

\* C9: an advance in which a step failed or raised has invoked the
\* Compensator for the job's contact by the time it ends.
C9_EveryFailureCompensated == (AdvanceEnded /\ StepFailed) => Compensated

\* C10: no exception leaves advance_convo, whatever the job and whatever the
\* collaborators do.
C10_NoExceptionEscapes == adv_pc # "raised"

\* The operation op appears in the trace.
Did(op) == \E k \in 1..Len(trace) : trace[k].op = op

\* The history compilation of this advance failed: nothing was fetched, or
\* the watermark was not found, or no inbound message was collected.
HistoryFailure ==
    \E k \in 1..Len(trace) :
        \/ trace[k].op = "retrieve_messages" /\ trace[k].r = "empty"
        \/ trace[k].op = "compile_messages"
              /\ (trace[k].a = <<"not_found">> \/ trace[k].n = 0)

\* A message was sent to the contact: the reply, or a message of a plan.
SentAnything ==
    \E k \in 1..Len(trace) :
        \/ trace[k].op = "send_message"
        \/ trace[k].op = "attempt" /\ trace[k].m = "send_message"

\* C13: after a history-compilation failure the Compensator is invoked for
\* the contact and the advance ends there: create_and_poll is never called
\* and nothing is sent.
C13_HistoryFailureSkipsReasoning ==
    HistoryFailure =>
        /\ Compensated
        /\ adv_pc \in {"kill", "done"}
        /\ ~Did("create_and_poll")
        /\ ~Did("messages_list")
        /\ ~SentAnything

\* C13 witness: messages were fetched and inbound ones collected, but the
\* watermark was not among them; the advance ended compensated.
C13_Witness ==
    /\ adv_pc = "done"
    /\ Compensated
    /\ \E k \in 1..Len(trace) :
          /\ trace[k].op = "compile_messages"
          /\ trace[k].a = <<"not_found">>
          /\ trace[k].n >= 2

\* The reply was sent and the CRM returned its message id.
ReplySent ==
    \E k \in 1..Len(trace) :
        trace[k].op = "send_message" /\ trace[k].r \in SentIds

\* The success record of process_message_run, functions.py:191.
ReportedSent ==
    \E k \in 1..Len(trace) :
        trace[k].op = "log" /\ trace[k].m = "AI Message -- Processed and sent"

\* C14: an advance that ended with the reply sent and no compensation left
\* the id returned by the send as the contact's stored watermark, and an
\* advance whose contact-update failed did not report success.
C14_WatermarkPersisted ==
    /\ (adv_pc = "done" /\ ReplySent /\ ~Compensated) => crm_watermark = message_id
    /\ (\E k \in 1..Len(trace) :
            trace[k].op = "update_contact" /\ trace[k].r = "none") => ~ReportedSent

\* The reasons of the KILL_BOT calls of the named actions.
NamedReasons == {"Handoff Action", "End Action", "Tier 1 Action"}

\* A named action was run: dispatched, or its KILL_BOT entered.
NamedActionRun ==
    \E k \in 1..Len(trace) :
        \/ trace[k].op = "dispatch" /\ trace[k].r = "called"
        \/ trace[k].op = "KILL_BOT" /\ trace[k].m \in NamedReasons

\* The run asks for an action, with arguments that parse and hold none of
\* the keys handoff, reason, tier.
UnrecognizedAction ==
    /\ run_response.kind = "run"
    /\ run_response.status = "requires_action"
    /\ run_response.tool.shape = "ok"
    /\ run_response.tool.keys \cap {"handoff", "reason", "tier"} = {}

\* C17: for an unrecognized action no named action is run, no
\* acknowledgment is submitted, the Compensator is invoked, and no exception
\* leaves advance_convo, also when the argument map is empty.
C17_UnrecognizedAction ==
    UnrecognizedAction =>
        /\ ~NamedActionRun
        /\ ~SentAnything
        /\ ~Did("submit_tool_outputs")
        /\ Compensated
        /\ adv_pc \in {"kill", "done"}

\* C17 witness: an advance ended compensated after a tool call with an
\* empty argument map.
C17_Witness ==
    /\ UnrecognizedAction
    /\ run_response.tool.keys = {}
    /\ adv_pc = "done"
    /\ Compensated
    /\ \E k \in 1..Len(trace) :
          trace[k].op = "dispatch" /\ trace[k].m = "unhandled" /\ trace[k].n = 0

\* The positions of the acknowledgments in the trace.
AckPositions == { k \in 1..Len(trace) : trace[k].op = "submit_tool_outputs" }

\* Position k comes after a dispatched named action whose KILL_BOT ran both
\* actions of its plan and wrote its outcome record.
AfterFinishedAction(k) ==
    \E d, l \in 1..(k - 1) :
        /\ d < l
        /\ trace[d].op = "dispatch" /\ trace[d].r = "called"
        /\ trace[d + 1].op = "KILL_BOT" /\ trace[d + 1].m \in NamedReasons
        /\ trace[l].op = "log"
        /\ trace[l].m \in {"all actions successful", "some actions failed"}
        /\ \A i \in 1..2 : \E j \in (d + 2)..(l - 1) :
                trace[j].op = "attempt" /\ trace[j].n = i
        /\ \A j \in (l + 1)..(k - 1) : trace[j].op # "attempt"

FailedOutcome ==
    /\ run_response.kind = "run"
    /\ run_response.status \notin {"completed", "requires_action"}

\* C19: for such a status no reply is sent, no named action is run, no
\* acknowledgment is submitted, and the Compensator is invoked.
C19_FailedOutcome ==
    FailedOutcome =>
        /\ ~Did("messages_list")
        /\ ~SentAnything
        /\ ~Did("dispatch")
        /\ ~NamedActionRun
        /\ ~Did("submit_tool_outputs")
        /\ Compensated
        /\ adv_pc \in {"kill", "done"}

\* C19 witness: an advance ended compensated after a run with status
\* "expired".
C19_Witness ==
    /\ FailedOutcome
    /\ run_response.status = "expired"
    /\ adv_pc = "done"
    /\ Compensated

(***************************************************************************)
(* Claims about compile_messages, checked under SpecCompile.               *)
(***************************************************************************)
\* The position of the watermark in the fetched list (most recent first),
\* 0 when no message has its id.
WatermarkPos ==
    IF \E k \in 1..Len(all_messages) :
            all_messages[k].id = convo_data.recent_automated_message_id
    THEN CHOOSE k \in 1..Len(all_messages) :
            /\ all_messages[k].id = convo_data.recent_automated_message_id
            /\ \A j \in 1..(k - 1) :
                  all_messages[j].id # convo_data.recent_automated_message_id
    ELSE 0

\* The positions of the inbound messages more recent than the watermark.
NewInbound ==
    { j \in 1..(WatermarkPos - 1) : all_messages[j].direction = "inbound" }

\* C11: the compiled messages are exactly the inbound messages more recent
\* than the first message with the watermark's id, each once, oldest
\* first; no outbound message and no message at or older than the watermark
\* is among them.
C11_CompileAlgorithm ==
    adv_pc = "compiled" =>
        /\ Len(messages) = Cardinality(NewInbound)
        /\ \A j \in NewInbound :
              messages[Cardinality({ i \in NewInbound : i > j }) + 1]
                = [role |-> "user", content |-> all_messages[j].body]

\* C11 witness: four messages were fetched, the oldest is the watermark, an
\* outbound message lies between two inbound ones, and the two inbound
\* messages were compiled, the older one first.
C11_Witness ==
    /\ adv_pc = "compiled"
    /\ WatermarkPos = 4
    /\ NewInbound = {1, 3}
    /\ messages = << [role |-> "user", content |-> all_messages[3].body],
                     [role |-> "user", content |-> all_messages[1].body] >>

\* The example of the specification, most recent message first: m4
\* (outbound, the watermark W), m3 and m2 (inbound), m1 (outbound).
ExampleList ==
    << Message("m4", "outbound"), Message("m3", "inbound"),
       Message("m2", "inbound"), Message("m1", "outbound") >>

ExampleCompiled ==
    << [role |-> "user", content |-> Message("m2", "inbound").body],
       [role |-> "user", content |-> Message("m3", "inbound").body] >>

\* C12 as stated: the example list with watermark m4 compiles to [m2, m3],
\* and a list without the watermark compiles to nothing.
C12_CompileExample ==
    adv_pc = "compiled" =>
        /\ (all_messages = ExampleList
              /\ convo_data.recent_automated_message_id = "m4")
             => messages = ExampleCompiled
        /\ WatermarkPos = 0 => messages = <<>>

\* C12 amended: with the watermark on m4, the most recent message, nothing
\* is compiled; with the watermark on m1, the oldest one, the same list
\* compiles to [m2, m3]; a list without the watermark compiles to nothing.
C12_CompileExampleAmended ==
    adv_pc = "compiled" =>
        /\ (all_messages = ExampleList
              /\ convo_data.recent_automated_message_id = "m4")
             => messages = <<>>
        /\ (all_messages = ExampleList
              /\ convo_data.recent_automated_message_id = "m1")
             => messages = ExampleCompiled
        /\ WatermarkPos = 0 => messages = <<>>

\* C12 witness: the example list was compiled from watermark m1 to [m2, m3].
C12_Witness ==
    /\ adv_pc = "compiled"
    /\ all_messages = ExampleList
    /\ convo_data.recent_automated_message_id = "m1"
    /\ messages = ExampleCompiled

(***************************************************************************)
(* Claims about the stripping of citation markers, checked under           *)
(* SpecStrip (C15) and SpecAdvance (C16).                                  *)
(***************************************************************************)
\* The matched pairs of s: an opening marker and a later closing marker.
MatchedPairs(s) ==
    { p \in (1..Len(s)) \X (1..Len(s)) :
        p[1] < p[2] /\ s[p[1]] = OpenMarker /\ s[p[2]] = CloseMarker }

\* s without the span from position i to position j, both included.
WithoutSpan(s, i, j) == SubSeq(s, 1, i - 1) \o SubSeq(s, j + 1, Len(s))

\* C15: a text without a matched pair of markers is left as it is (also
\* when a closing marker precedes an opening one); a text with exactly one
\* matched pair loses exactly the span from its opening to its closing
\* marker; and the stripped text holds no matched pair.
C15_StripCitation ==
    adv_pc = "stripped" =>
        LET s == ai_messages.content
        IN /\ MatchedPairs(s) = {} => ai_content = s
           /\ \A p \in MatchedPairs(s) :
                MatchedPairs(s) = {p} => ai_content = WithoutSpan(s, p[1], p[2])
           /\ MatchedPairs(ai_content) = {}

\* The texts "hello world" and "helloworld".
HelloSpaceWorld == <<"h", "e", "l", "l", "o", " ", "w", "o", "r", "l", "d">>
HelloWorld == <<"h", "e", "l", "l", "o", "w", "o", "r", "l", "d">>

\* The texts passed to send_message as the reply of this advance.
ReplyTexts ==
    { Tail(trace[k].a) : k \in { i \in 1..Len(trace) :
                                    trace[i].op = "send_message" } }

\* C16 as stated: the reply sent for the completion "hello[1]world" is
\* "hello world".
C16_ReplyText ==
    (ai_messages.kind = "data" /\ ai_messages.content = HelloCitedWorld)
        => \A t \in ReplyTexts : t = HelloSpaceWorld

\* C16 amended: the reply sent for the completion "hello[1]world" is
\* "helloworld", the text without the markers and what they enclose.
C16_ReplyTextAmended ==
    (ai_messages.kind = "data" /\ ai_messages.content = HelloCitedWorld)
        => \A t \in ReplyTexts : t = HelloWorld

\* C16 witness: the completion "hello[1]world" was listed and send_message
\* was called with "helloworld" and returned a message id.
C16_Witness ==
    /\ ai_messages.content = HelloCitedWorld
    /\ ReplyTexts = {HelloWorld}
    /\ ReplySent

(***************************************************************************)
(* Claims about the Expiry Listener, checked under SpecListen.             *)
(***************************************************************************)
\* The key is the encoding of a job of one of the contacts.
WellFormed(key) ==
    decode_key(key) # NoEvent /\ decode_key(key).ghl_contact_id \in Contacts

\* C20: the listen loop never stops; a notification whose key is no job is
\* logged and changes no queue; a notification whose key is a job is handed
\* to the Dispatcher (appended to its contact's queue), whatever was
\* delivered before it; so every job whose key expired and left the channel
\* was enqueued.
C20_ListenerRobust ==
    /\ [](listening
          /\ \A key \in ever_keys :
                (WellFormed(key) /\ key \notin DOMAIN store
                    /\ \A i \in 1..Len(channel) : channel[i] # key)
                => InSeq(decode_key(key), enq[KeyContact(key)]))
    /\ [][(channel # <<>> /\ channel' = Tail(channel)) =>
            IF WellFormed(Head(channel))
            THEN LET job == decode_key(Head(channel))
                 IN /\ enq'[job.ghl_contact_id] = Append(enq[job.ghl_contact_id], job)
                    /\ queue'[job.ghl_contact_id]
                          = Append(queue[job.ghl_contact_id], job)
            ELSE /\ queue' = queue
                 /\ enq' = enq
                 /\ trace' = Append(trace, Ev("log", "Expiry Listener -- decode failed",
                                              Head(channel), "error", 0))]_vars

\* C20 witness: the key of a /loadtest/full-flow request was logged and
\* skipped, a job delivered after it was enqueued, and then both happened
\* once more.
C20_Witness ==
    /\ Len(trace) >= 3
    /\ trace[1].op = "log" /\ trace[1].m = "Expiry Listener -- decode failed"
    /\ trace[2].op = "enqueue"
    /\ trace[3].op = "log"
    /\ \E c \in Contacts : enq[c] # <<>>
    /\ listening

\* C21: a /triggerResponse request with an absent, empty or "null" identity
\* field is answered with a validation error (status 400) that names the
\* missing fields, never with the generic internal error or an
\* acknowledgement.
C21_ValidationErrorNamed ==
    (submits > 0 /\ HasPlaceholder(response.request) /\ response.status # 403)
        => /\ response.status = 400
           /\ response.message \notin {"Internal code error", "Response queued",
                                       "Failed to queue"}

\* C22: a /triggerResponse request makes at most one SETEX call; it is
\* answered "Response queued" with the contact id exactly when that call
\* wrote the key, and a call that wrote nothing (a falsy result or an
\* exception) is answered with a failure message.
C22_AckIffWritten ==
    submits > 0 =>
        /\ response.setex_calls <= 1
        /\ (response.message = "Response queued" /\ response.ghl_contact_id # None)
              <=> response.wrote
        /\ response.wrote => response.status = 200 /\ response.setex_calls = 1
        /\ (response.setex_calls = 1 /\ ~response.wrote)
              => response.message \in {"Failed to queue", "Internal code error"}

\* C22 witness: after a request that wrote its key, a request whose SETEX
\* returned a falsy result was answered "Failed to queue" and left the store
\* with the first key only.
C22_Witness ==
    /\ submits = 2
    /\ response.message = "Failed to queue"
    /\ response.setex_calls = 1
    /\ ~response.wrote
    /\ Cardinality(ever_keys) = 1

\* The statuses of a run that is still going on.
StillRunning == {"queued", "in_progress"}

\* C23: for a run whose status is a still-running one (queued, in_progress)
\* the advance sends no reply, runs no named action and executes no
\* compensation.
C23_NonTerminalNotActedOn ==
    (run_response.kind = "run" /\ run_response.status \in StillRunning)
        => /\ ~SentAnything
           /\ ~NamedActionRun
           /\ ~Compensated
           /\ kb_pc = "idle"

\* The plan of a "Bot Failure" compensation for the job: remove the filter
\* tag of the job, then add "bot failure".
OwnerPlanNames == <<"remove_tags", "add_tags">>
OwnerPlanArgs ==
    << <<convo_data.ghl_contact_id, convo_data.bot_filter_tag>>,
       <<convo_data.ghl_contact_id, "bot failure">> >>

\* C24: whenever advance_convo compensates, the plan is, in this order, to
\* remove the filter tag of the job's automation flow from the contact and
\* to add the tag "bot failure"; the second action is attempted whatever the
\* first one did.
C24_CompensationPlan ==
    /\ (adv_pc = "kill" /\ kb_pc # "idle") =>
          /\ Len(kb_plan) = 2
          /\ \A i \in 1..2 : /\ kb_plan[i].name = OwnerPlanNames[i]
                              /\ kb_plan[i].args = OwnerPlanArgs[i]
    /\ (Compensated /\ adv_pc = "done") =>
          \A i \in 1..2 : \E k \in 1..Len(trace) :
              /\ trace[k].op = "attempt"
              /\ trace[k].m = OwnerPlanNames[i]
              /\ trace[k].a = OwnerPlanArgs[i]

\* The positions of the "Bot Failure" compensations of this advance.
BotFailureCalls ==
    { k \in 1..Len(trace) : trace[k].op = "KILL_BOT" /\ trace[k].m = "Bot Failure" }

\* C25: one advance invokes the "Bot Failure" compensation at most once, and
\* nothing of the advance follows its outcome record.
C25_CompensatedAtMostOnce ==
    /\ Cardinality(BotFailureCalls) <= 1
    /\ \A k \in BotFailureCalls : \A l \in (k + 1)..Len(trace) :
          trace[l].op \in {"attempt", "log"}

\* C25 witness: a named action ran its own plan, the acknowledgment of the
\* tool call then failed inside the RequiresAction branch, and the advance
\* ended with one "Bot Failure" compensation.
C25_Witness ==
    /\ adv_pc = "done"
    /\ \E k \in 1..Len(trace) :
          trace[k].op = "KILL_BOT" /\ trace[k].m \in NamedReasons
    /\ \E k \in 1..Len(trace) :
          trace[k].op = "submit_tool_outputs" /\ trace[k].r = "raise"
    /\ Cardinality(BotFailureCalls) = 1

\* The records of the reply's send and of the contact-update.
SendPositions == { k \in 1..Len(trace) : trace[k].op = "send_message" }
UpdatePositions == { k \in 1..Len(trace) : trace[k].op = "update_contact" }

\* C26: an advance whose send of the reply returned a message id invokes no
\* "Bot Failure" compensation, also when the contact-update after it
\* failed; and an advance that compensated in the Completed branch has
\* sent no reply that returned a message id.
C26_ReplyExcludesCompensation ==
    /\ ReplySent => (~Compensated /\ BotFailureCalls = {} /\ adv_pc # "kill")
    /\ (BotFailureCalls # {} /\ run_response.kind = "run"
            /\ run_response.status = "completed")
          => \A k \in SendPositions : trace[k].r = "none"

\* C26 witness: the reply was sent, the contact-update after it failed, and
\* the advance ended without compensation.
C26_Witness ==
    /\ adv_pc = "done"
    /\ ReplySent
    /\ \E k \in UpdatePositions : trace[k].r = "none"
    /\ BotFailureCalls = {}

\* C27: a contact-update of recent_automated_message_id is issued only in the
\* Completed branch, right after a send that returned a message id, and
\* with that id; in every other advance the stored watermark is the one
\* the advance started with.
C27_WatermarkOnlyOnSuccess ==
    /\ \A k \in UpdatePositions :
          /\ run_response.kind = "run" /\ run_response.status = "completed"
          /\ k > 1
          /\ trace[k - 1].op = "send_message"
          /\ trace[k - 1].r \in SentIds
          /\ trace[k].a = <<convo_data.ghl_contact_id, trace[k - 1].r>>
    /\ Cardinality(UpdatePositions) <= 1
    /\ crm_watermark # "m1" =>
          \E k \in UpdatePositions : trace[k].r = "ok" /\ crm_watermark = trace[k].a[2]
    /\ (UpdatePositions = {} \/ Compensated) => crm_watermark = "m1"

\* C27 witness: a named action ran to its acknowledgment and the stored
\* watermark is still the initial one.
C27_Witness ==
    /\ adv_pc = "done"
    /\ run_response.status = "requires_action"
    /\ \E k \in 1..Len(trace) :
          trace[k].op = "submit_tool_outputs" /\ trace[k].r = "ok"
    /\ UpdatePositions = {}
    /\ crm_watermark = "m1"

\* The named-action keys among the arguments of the first tool call.
ActionKeys == run_response.tool.keys \cap {"handoff", "reason", "tier"}

\* The named action the precedence handoff, reason, tier gives ActionKeys.
ByPrecedence ==
    IF "handoff" \in ActionKeys THEN "handoff_action"
    ELSE IF ActionKeys \in {{"reason"}, {"reason", "tier"}} THEN "end_action"
    ELSE "tier1_action"

\* The named actions that were called, and the plans that were run for one.
ActionCalls ==
    { k \in 1..Len(trace) : trace[k].op = "dispatch" /\ trace[k].r \in {"called", "raise"} }
ActionPlans ==
    { k \in 1..Len(trace) : trace[k].op = "KILL_BOT" /\ trace[k].m \in NamedReasons }

\* C28: when the arguments of the first tool call parse, exactly one named
\* action is called if one of handoff, reason, tier is among their keys, the
\* one that handoff over reason over tier selects, and none otherwise; an
\* advance never runs two named actions, and the keys of a later tool call
\* select nothing.
C28_DispatchExclusive ==
    /\ Cardinality(ActionCalls) <= 1
    /\ Cardinality(ActionPlans) <= 1
    /\ \A k \in ActionPlans :
          /\ k - 1 \in ActionCalls
          /\ trace[k].m = named_action_reason(trace[k - 1].m)
    /\ (run_response.kind = "run" /\ run_response.status = "requires_action"
            /\ run_response.tool.shape = "ok")
          => IF ActionKeys # {}
             THEN /\ Cardinality(ActionCalls) = 1
                  /\ \A k \in ActionCalls : trace[k].m = ByPrecedence
             ELSE ActionCalls = {} /\ ActionPlans = {}
    /\ ~(run_response.kind = "run" /\ run_response.status = "requires_action"
            /\ run_response.tool.shape = "ok")
          => ActionCalls = {} /\ ActionPlans = {}

\* C28 witness: the first tool call had the keys reason and tier, a later
\* one asked for a handoff, and the advance ended after the end action
\* alone.
C28_Witness ==
    /\ adv_pc = "done"
    /\ run_response.tool.keys = {"reason", "tier", "other"}
    /\ run_response.tool.later = {"handoff"}
    /\ \E k \in ActionPlans : trace[k].m = "End Action"
    /\ \E k \in 1..Len(trace) :
          trace[k].op = "submit_tool_outputs" /\ trace[k].r = "ok"

(***************************************************************************)
(* Claims about /initialize, checked under SpecInitialize.                 *)
(***************************************************************************)
\* The five steps of /initialize in the order of main.py:64-92, and the
\* records of the steps made.
InitStepNames == <<"threads_create", "get_conversation_id", "send_message",
                   "update_contact", "add_tags">>
InitSteps ==
    SelectSeq(trace, LAMBDA ev : \E i \in 1..Len(InitStepNames) : ev.op = InitStepNames[i])

StepSucceeded(ev) == ev.r \notin {None, "", "null", "raise"}

AllStepsSucceeded ==
    /\ Len(InitSteps) = Len(InitStepNames)
    /\ \A i \in 1..Len(InitSteps) : StepSucceeded(InitSteps[i])

\* C29: for an /initialize request with all required fields the steps run
\* in the order create thread, get conversation id, send first message,
\* update contact, add bot filter tag, each after the success of all
\* earlier ones; the answer is 200 "Initialization successful" exactly when
\* all five succeeded, and else the compensation ran exactly once, after
\* the failed step and with no step after it, and the answer is 400; the
\* filter tag is added only after the send and the update succeeded.
C29_InitializeAllOrCompensate ==
    /\ Len(InitSteps) <= Len(InitStepNames)
    /\ \A i \in 1..Len(InitSteps) :
          /\ InitSteps[i].op = InitStepNames[i]
          /\ i < Len(InitSteps) => StepSucceeded(InitSteps[i])
    /\ \A k \in BotFailureCalls : \A l \in (k + 1)..Len(trace) :
          trace[l].op \in {"attempt", "log"}
    /\ (init_pc = "done" /\ data.is_mapping /\ ~missing_fields(data)) =>
          IF AllStepsSucceeded
          THEN /\ init_response.status = 200
               /\ init_response.message = "Initialization successful"
               /\ BotFailureCalls = {}
          ELSE /\ init_response.status = 400
               /\ init_response.message # "Initialization successful"
               /\ Cardinality(BotFailureCalls) = 1
               /\ InitSteps # <<>>
               /\ ~StepSucceeded(InitSteps[Len(InitSteps)])
    /\ init_response.status = 200 => AllStepsSucceeded
    /\ (\E k \in 1..Len(trace) : trace[k].op = "add_tags") =>
          /\ Len(InitSteps) = 5
          /\ StepSucceeded(InitSteps[3])
          /\ StepSucceeded(InitSteps[4])

\* C29 witness: the contact-update failed after the first message was sent,
\* the compensation ran once, the filter tag was never added, and the
\* answer was 400.
C29_Witness ==
    /\ init_pc = "done"
    /\ Len(InitSteps) = 4
    /\ StepSucceeded(InitSteps[3])
    /\ ~StepSucceeded(InitSteps[4])
    /\ Cardinality(BotFailureCalls) = 1
    /\ init_response = InitResponse(400, "Failed to update contact", None)

====
